---- MODULE Spec2Model ----
(***************************************************************************)
(* Model of the two scoring pipelines of the repository:                   *)
(*   Q4  "anomoly detection.py"   : detect_outliers_iqr ->                 *)
(*        calculate_risk_scores -> process_claims (sorted report)          *)
(*   Q5  claimpatternanalysis.py  : calculate_ltv_and_loss_ratio ->        *)
(*        calculate_risk_score -> segment_customers                        *)
(* CSV loading, merging and date parsing are outside the model: a run      *)
(* starts from the merged, preprocessed table.                             *)
(*                                                                         *)
(* Floating point values are modelled as exact rationals extended with     *)
(* NaN and the two infinities (what numpy/pandas division produces);       *)
(* rounding error of binary floating point is not modelled.                *)
(***************************************************************************)
EXTENDS Integers, Sequences, FiniteSets

VARIABLES
    pc,         \* position of the running script
    df,         \* the table the script currently holds (a sequence of rows)
    caller_df,  \* the table object that was passed to the last stage, as it is after the call
    given_df,   \* value of that table object at the moment of the call
    report,     \* output_df of process_claims
    scaled_features,  \* the array fit_transform returned to calculate_risk_score
    err         \* exception that ended the run, or "none"

vars == <<pc, df, caller_df, given_df, report, scaled_features, err>>

-----------------------------------------------------------------------------
(* Bounds of the model.                                                    *)

MaxClaims == 5       \* rows of a claim table that varies policy_type and claim_amount
MaxScoreRows == 2    \* rows of a claim table that varies every scored column
MaxHistRows == 6     \* rows of a claim table that varies customer_id and claim_date
MaxCustomers == 2    \* rows of a customer table that varies every aggregate
MaxPopulation == 3   \* rows of a customer table that varies loss ratio and fraud count
MaxSegRows == 2      \* rows of a table handed directly to segment_customers

PolicyTypes == {"auto", "home"}
Amounts == {0, 4, 5}
Coverages == {0, 5}
ClaimDates == {10, 30}      \* days; start_date is day 0
CustomerIds == {1, 2}

-----------------------------------------------------------------------------
(* Floats: exact rationals n/d (d > 0, lowest terms), NaN, +inf, -inf.     *)

Abs(x) == IF x < 0 THEN -x ELSE x

RECURSIVE GCD(_, _)
GCD(a, b) == IF b = 0 THEN a ELSE GCD(b, a % b)

Fin(n, d) == [k |-> "fin", n |-> n, d |-> d]
NaN == [k |-> "nan", n |-> 0, d |-> 1]
PosInf == [k |-> "inf", n |-> 1, d |-> 1]
NegInf == [k |-> "inf", n |-> -1, d |-> 1]

Sign(x) == IF x > 0 THEN 1 ELSE IF x < 0 THEN -1 ELSE 0

Norm(n, d) ==
    LET s == IF d < 0 THEN -1 ELSE 1
        g == GCD(Abs(n), Abs(d))
    IN  Fin((s * n) \div g, (s * d) \div g)

F(i) == Fin(i, 1)

IsFin(x) == x.k = "fin"
IsNaN(x) == x.k = "nan"
IsInf(x) == x.k = "inf"

\* IEEE true division, as numpy performs it on a float column (no exception).
FDiv(a, b) ==
    IF IsNaN(a) \/ IsNaN(b) THEN NaN
    ELSE IF IsInf(a) THEN
        IF IsInf(b) THEN NaN
        ELSE IF b.n < 0 THEN [a EXCEPT !.n = -a.n]
        ELSE a
    ELSE IF IsInf(b) THEN F(0)
    ELSE IF b.n = 0 THEN
        IF a.n = 0 THEN NaN ELSE IF a.n > 0 THEN PosInf ELSE NegInf
    ELSE Norm(a.n * b.d, a.d * b.n)

FMul(a, b) ==
    IF IsNaN(a) \/ IsNaN(b) THEN NaN
    ELSE IF IsInf(a) \/ IsInf(b) THEN
        IF Sign(a.n) * Sign(b.n) = 0 THEN NaN
        ELSE IF Sign(a.n) * Sign(b.n) > 0 THEN PosInf ELSE NegInf
    ELSE Norm(a.n * b.n, a.d * b.d)

FAdd(a, b) ==
    IF IsNaN(a) \/ IsNaN(b) THEN NaN
    ELSE IF IsInf(a) THEN (IF IsInf(b) /\ b.n # a.n THEN NaN ELSE a)
    ELSE IF IsInf(b) THEN b
    ELSE Norm(a.n * b.d + b.n * a.d, a.d * b.d)

FNeg(a) == IF IsNaN(a) THEN NaN ELSE [a EXCEPT !.n = -a.n]

FSub(a, b) == FAdd(a, FNeg(b))

\* a < b; every comparison with NaN is false.
FLt(a, b) ==
    IF IsNaN(a) \/ IsNaN(b) THEN FALSE
    ELSE IF IsInf(a) THEN a.n < 0 /\ ~(IsInf(b) /\ b.n < 0)
    ELSE IF IsInf(b) THEN b.n > 0
    ELSE a.n * b.d < b.n * a.d

FGt(a, b) == FLt(b, a)
FEq(a, b) == ~IsNaN(a) /\ ~IsNaN(b) /\ a = b
FLe(a, b) == FLt(a, b) \/ FEq(a, b)
FGe(a, b) == FLe(b, a)

\* Python's builtin min(a, b): b only when b < a, otherwise a.
PyMin(a, b) == IF FLt(b, a) THEN b ELSE a

-----------------------------------------------------------------------------
(* Sequence helpers.                                                       *)

RECURSIVE SeqsUpTo(_, _)
\* all sequences over S of length 0..n
SeqsUpTo(S, n) ==
    IF n = 0 THEN {<<>>}
    ELSE LET shorter == SeqsUpTo(S, n - 1)
         IN  shorter \cup {Append(s, x) : s \in {t \in shorter : Len(t) = n - 1}, x \in S}

Column(t, c) == [i \in 1..Len(t) |-> t[i][c]]

RECURSIVE InsertSorted(_, _)
InsertSorted(x, s) ==
    IF s = <<>> THEN <<x>>
    ELSE IF x <= Head(s) THEN <<x>> \o s
    ELSE <<Head(s)>> \o InsertSorted(x, Tail(s))

RECURSIVE SortInts(_)
SortInts(s) == IF s = <<>> THEN <<>> ELSE InsertSorted(Head(s), SortInts(Tail(s)))

-----------------------------------------------------------------------------
(* Q4: detect_outliers_iqr                                                 *)

\* Series.quantile(p/4) with pandas' default linear interpolation.
quantile(values, p) ==
    LET a == SortInts(values)
        n == Len(a)
        h == (n - 1) * p
        lo == h \div 4
        r == h % 4
    IN  IF r = 0 THEN F(a[lo + 1])
        ELSE Norm(4 * a[lo + 1] + (a[lo + 2] - a[lo + 1]) * r, 4)

\* variant: the quartiles are taken over the whole table
subset_amounts_all(t, ptype) == Column(t, "claim_amount")

\* df[df["policy_type"] == ptype]["claim_amount"]
subset_amounts(t, ptype) ==
    Column(SelectSeq(t, LAMBDA row : row.policy_type = ptype), "claim_amount")

lower_bound(subset) ==
    LET q1 == quantile(subset, 1)
        q3 == quantile(subset, 3)
    IN  FSub(q1, FMul(Fin(3, 2), FSub(q3, q1)))

upper_bound(subset) ==
    LET q1 == quantile(subset, 1)
        q3 == quantile(subset, 3)
    IN  FAdd(q3, FMul(Fin(3, 2), FSub(q3, q1)))

\* variant: the fences themselves count as outside
outlier_mask_inclusive(t, ptype, row) ==
    LET subset == Column(SelectSeq(t, LAMBDA r : r.policy_type = ptype), "claim_amount")
    IN  /\ row.policy_type = ptype
        /\ \/ FLe(F(row.claim_amount), lower_bound(subset))
           \/ FGe(F(row.claim_amount), upper_bound(subset))

\* the mask of one loop iteration
outlier_mask(t, ptype, row) ==
    LET subset == subset_amounts(t, ptype)
    IN  /\ row.policy_type = ptype
        /\ \/ FLt(F(row.claim_amount), lower_bound(subset))
           \/ FGt(F(row.claim_amount), upper_bound(subset))

RECURSIVE unique(_)
\* Series.unique(): distinct values in order of first appearance
unique(s) ==
    IF s = <<>> THEN <<>>
    ELSE LET init == unique(SubSeq(s, 1, Len(s) - 1))
             x == s[Len(s)]
         IN  IF \E i \in 1..Len(init) : init[i] = x THEN init ELSE Append(init, x)

RECURSIVE outlier_loop(_, _)
\* the for-loop over the policy types; t carries the is_outlier column
outlier_loop(t, ptypes) ==
    IF ptypes = <<>> THEN t
    ELSE LET ptype == Head(ptypes)
             marked == [i \in 1..Len(t) |->
                          IF outlier_mask(t, ptype, t[i])
                          THEN [t[i] EXCEPT !.is_outlier = TRUE]
                          ELSE t[i]]
         IN  outlier_loop(marked, Tail(ptypes))

AddColumn(row, c, v) == [x \in (DOMAIN row) \cup {c} |-> IF x = c THEN v ELSE row[x]]

detect_outliers_iqr(t) ==
    LET t0 == [i \in 1..Len(t) |-> AddColumn(t[i], "is_outlier", FALSE)]
    IN  outlier_loop(t0, unique(Column(t0, "policy_type")))

-----------------------------------------------------------------------------
(* Q4: calculate_risk_scores                                               *)

\* df["claim_amount"] / df["coverage_amount"]: a pandas division, which
\* yields inf or NaN for a zero divisor and raises nothing
coverage_ratio(row) == FDiv(F(row.claim_amount), F(row.coverage_amount))

\* variant: the arguments of min in the other order, so that a NaN ratio stays NaN
score_coverage_min_swapped(x) == PyMin(FMul(x, F(50)), F(50))

\* lambda x: min(50, x * 50)
score_coverage(x) == PyMin(F(50), FMul(x, F(50)))

days_since_start(row) == row.claim_date - row.start_date

\* lambda x: 30 if x < 30 else 0
score_timing(x) == IF x < 30 THEN 30 ELSE 0

\* df.groupby("customer_id")["claim_id"].transform("count")
claim_counts(t, row) == Cardinality({i \in 1..Len(t) : t[i].customer_id = row.customer_id})

clip_lower(x, lo) == IF x < lo THEN lo ELSE x
clip_upper(x, hi) == IF x > hi THEN hi ELSE x

\* variant: no upper clip
score_history_uncapped(count) == clip_lower(count - 1, 0) * 5

\* ((claim_counts - 1).clip(lower=0) * 5).clip(upper=20)
score_history(count) == clip_upper(clip_lower(count - 1, 0) * 5, 20)

\* the reason_list of one row, built in the order of the four ifs
reason_list(row) ==
    (IF row.score_history > 0 THEN <<"Multiple claims history">> ELSE <<>>)
    \o (IF FGt(row.score_coverage, F(40)) THEN <<"High claim-to-coverage ratio">> ELSE <<>>)
    \o (IF row.score_timing > 0 THEN <<"Early claim after policy start">> ELSE <<>>)
    \o (IF row.is_outlier THEN <<"Statistical outlier in claim amount">> ELSE <<>>)

\* ", ".join(reason_list) if reason_list else "Normal".  The string is kept as
\* the sequence of its comma separated pieces (no tag holds a comma).
anomaly_reasons(row) == IF reason_list(row) # <<>> THEN reason_list(row) ELSE <<"Normal">>

\* variant: "Normal" earns the bonus of one reason
anomaly_bonus_normal_counted(r) == ((Len(r) - 1) + 1) * 5

\* lambda r: (r.count(",") + 1) * 5 if r != "Normal" else 0
anomaly_bonus(r) == IF r # <<"Normal">> THEN ((Len(r) - 1) + 1) * 5 ELSE 0

score_row(t, row) ==
    LET r1 == AddColumn(row, "coverage_ratio", coverage_ratio(row))
        r2 == AddColumn(r1, "score_coverage", score_coverage(r1.coverage_ratio))
        r3 == AddColumn(r2, "days_since_start", days_since_start(r2))
        r4 == AddColumn(r3, "score_timing", score_timing(r3.days_since_start))
        r5 == AddColumn(r4, "score_history", score_history(claim_counts(t, row)))
        r6 == AddColumn(r5, "risk_score",
                        FAdd(FAdd(r5.score_coverage, F(r5.score_timing)), F(r5.score_history)))
        r7 == AddColumn(r6, "anomaly_reasons", anomaly_reasons(r6))
    IN  [r7 EXCEPT !.risk_score = FAdd(r7.risk_score, F(anomaly_bonus(r7.anomaly_reasons)))]

calculate_risk_scores(t) == [i \in 1..Len(t) |-> score_row(t, t[i])]

-----------------------------------------------------------------------------
(* Q4: the report of process_claims                                        *)

\* lambda x: len(str(x).split(","))
reason_count(r) == Len(r)

\* a sorts strictly before b under by=["reason_count", "risk_score"],
\* ascending=[False, False]
sorts_before(a, b) ==
    \/ a.reason_count > b.reason_count
    \/ a.reason_count = b.reason_count /\ FGt(a.risk_score, b.risk_score)

RECURSIVE insert_stable(_, _)
\* x goes in front of the first row it sorts strictly before
insert_stable(x, s) ==
    IF s = <<>> THEN <<x>>
    ELSE IF sorts_before(x, Head(s)) THEN <<x>> \o s
    ELSE <<Head(s)>> \o insert_stable(x, Tail(s))

RECURSIVE sort_values(_)
\* DataFrame.sort_values on two keys: a lexsort, which keeps ties in input order
sort_values(t) ==
    IF t = <<>> THEN <<>>
    ELSE insert_stable(t[Len(t)], sort_values(SubSeq(t, 1, Len(t) - 1)))

output_df(t) ==
    LET picked == [i \in 1..Len(t) |->
                     [claim_id |-> t[i].claim_id, risk_score |-> t[i].risk_score,
                      is_outlier |-> t[i].is_outlier, anomaly_reasons |-> t[i].anomaly_reasons,
                      reason_count |-> reason_count(t[i].anomaly_reasons)]]
        sorted == sort_values(picked)
    IN  [i \in 1..Len(sorted) |->
           [claim_id |-> sorted[i].claim_id, risk_score |-> sorted[i].risk_score,
            is_outlier |-> sorted[i].is_outlier, anomaly_reasons |-> sorted[i].anomaly_reasons]]

-----------------------------------------------------------------------------
(* Q5: calculate_customer_features (tenure only), calculate_ltv_and_loss_ratio *)

\* policy_tenure_days / 365.25; the day count is NaN for a customer without a policy
policy_tenure_years(days) == FDiv(days, Fin(1461, 4))

\* Series.replace([np.inf, -np.inf], 0)
replace_inf(x) == IF IsInf(x) THEN F(0) ELSE x

\* Series.fillna(0)
fillna(x) == IF IsNaN(x) THEN F(0) ELSE x

lifetime_value(row) == row.annual_premium_sum - row.total_claim_amount

\* variant: infinities are not replaced
loss_ratio_unreplaced(row) ==
    fillna(FDiv(F(row.total_claim_amount), F(row.annual_premium_sum)))

loss_ratio(row) ==
    fillna(replace_inf(FDiv(F(row.total_claim_amount), F(row.annual_premium_sum))))

calculate_ltv_and_loss_ratio(t) ==
    [i \in 1..Len(t) |->
       AddColumn(AddColumn(t[i], "lifetime_value", lifetime_value(t[i])),
                 "loss_ratio", loss_ratio(t[i]))]

-----------------------------------------------------------------------------
(* Q5: calculate_risk_score                                                *)

claim_frequency_per_year(row) ==
    fillna(replace_inf(FDiv(F(row.total_claims), row.policy_tenure_years)))

with_claim_frequency(t) ==
    [i \in 1..Len(t) |->
       AddColumn(t[i], "claim_frequency_per_year", claim_frequency_per_year(t[i]))]

\* df[risk_features], fraud_claims converted to float
risk_features(row) == <<row.loss_ratio, F(row.fraud_claims), row.claim_frequency_per_year>>

RECURSIVE nanmin(_)
\* np.nanmin of a column: NaN entries are skipped; NaN when there is no other
nanmin(col) ==
    IF col = <<>> THEN NaN
    ELSE LET rest == nanmin(Tail(col))
         IN  IF IsNaN(Head(col)) THEN rest
             ELSE IF IsNaN(rest) \/ FLt(Head(col), rest) THEN Head(col) ELSE rest

RECURSIVE nanmax(_)
nanmax(col) ==
    IF col = <<>> THEN NaN
    ELSE LET rest == nanmax(Tail(col))
         IN  IF IsNaN(Head(col)) THEN rest
             ELSE IF IsNaN(rest) \/ FGt(Head(col), rest) THEN Head(col) ELSE rest

\* variant: a zero range is divided by as it is
handle_zeros_in_scale_none(range) == range

\* sklearn's _handle_zeros_in_scale: a zero range is replaced by 1
handle_zeros_in_scale(range) == IF FEq(range, F(0)) THEN F(1) ELSE range

\* MinMaxScaler().fit_transform on one column: X * scale_ + min_
minmax_scale(col, x) ==
    LET data_min == nanmin(col)
        data_range == FSub(nanmax(col), data_min)
        scale == FDiv(F(1), handle_zeros_in_scale(data_range))
        min_ == FSub(F(0), FMul(data_min, scale))
    IN  FAdd(FMul(x, scale), min_)

\* fit_transform validates its input: no rows, or an infinite entry, raises ValueError
scaler_accepts(t) ==
    /\ Len(t) > 0
    /\ \A i \in 1..Len(t) : \A j \in 1..3 : ~IsInf(risk_features(t[i])[j])

feature_column(t, j) == [i \in 1..Len(t) |-> risk_features(t[i])[j]]

\* scaler.fit_transform(df[risk_features]) on a table that has the frequency column
fit_transform(t) ==
    [i \in 1..Len(t) |->
       [j \in 1..3 |-> minmax_scale(feature_column(t, j), risk_features(t[i])[j])]]

\* scaled[:, 0] * 50 + scaled[:, 1] * 30 + scaled[:, 2] * 20
weighted_sum(scaled) ==
    FAdd(FAdd(FMul(scaled[1], F(50)), FMul(scaled[2], F(30))), FMul(scaled[3], F(20)))

calculate_risk_score(t) ==
    LET t1 == with_claim_frequency(t)
        scaled == fit_transform(t1)
    IN  [i \in 1..Len(t1) |-> AddColumn(t1[i], "risk_score", weighted_sum(scaled[i]))]

-----------------------------------------------------------------------------
(* Q5: segment_customers                                                   *)

\* variant: risk_score 60 already counts as Risk Management
assign_segment_ge60(row) ==
    IF row.lifetime_value >= 0 /\ FLe(row.risk_score, F(40)) THEN "Premium Partner"
    ELSE IF row.lifetime_value >= 0 /\ FLt(F(40), row.risk_score) /\ FLe(row.risk_score, F(60))
        THEN "Growth Prospect"
    ELSE IF row.lifetime_value < 0 /\ FGe(row.risk_score, F(60)) THEN "Risk Management"
    ELSE "Watch List"

assign_segment(row) ==
    IF row.lifetime_value >= 0 /\ FLe(row.risk_score, F(40)) THEN "Premium Partner"
    ELSE IF row.lifetime_value >= 0 /\ FLt(F(40), row.risk_score) /\ FLe(row.risk_score, F(60))
        THEN "Growth Prospect"
    ELSE IF row.lifetime_value < 0 /\ FGt(row.risk_score, F(60)) THEN "Risk Management"
    ELSE "Watch List"

segment_customers(t) == [i \in 1..Len(t) |-> AddColumn(t[i], "segment", assign_segment(t[i]))]

-----------------------------------------------------------------------------
(* Input tables.                                                           *)

ClaimRow(i, x) ==
    [claim_id |-> i, policy_type |-> x[1], claim_amount |-> x[2], coverage_amount |-> x[3],
     claim_date |-> x[4], start_date |-> 0, customer_id |-> x[5]]

\* every non-empty claim table of at most n rows with columns drawn from the given sets
ClaimTables(n, PT, AM, CV, DT, CU) ==
    {[i \in 1..Len(s) |-> ClaimRow(i, s[i])] :
        s \in SeqsUpTo(PT \X AM \X CV \X DT \X CU, n) \ {<<>>}}

\* tables that vary the policy type and the amount (outlier detection); one
\* customer, early claims, so that every anomaly reason can meet an outlier
OutlierTables == ClaimTables(MaxClaims, PolicyTypes, {4, 5}, {5}, {10}, {1})

\* tables that vary every column the scorer reads
ScoreTables == ClaimTables(MaxScoreRows, {"auto"}, Amounts, Coverages, ClaimDates, CustomerIds)

\* tables long enough for a customer's claim count to pass the cap of score_history
HistoryTables == ClaimTables(MaxHistRows, {"auto"}, {1}, {2}, {10}, CustomerIds)

TenureDays == {NaN, F(0), F(1461)}
Premiums == {0, 1000}

\* (total_claims, total_claim_amount, fraud_claims) of one customer: a customer
\* without claims has no claim amount and no fraudulent claim
ClaimTotals == {<<0, 0, 0>>, <<2, 0, 0>>, <<2, 0, 1>>, <<2, 500, 0>>, <<2, 500, 1>>}

CustomerRow(i, x) ==
    [customer_id |-> i, total_claims |-> x[1][1], total_claim_amount |-> x[1][2],
     fraud_claims |-> x[1][3], policy_tenure_years |-> policy_tenure_years(x[2]),
     annual_premium_sum |-> x[3]]

CustomerTables(n, CT, TD, PR) ==
    {[i \in 1..Len(s) |-> CustomerRow(i, s[i])] : s \in SeqsUpTo(CT \X TD \X PR, n)}

\* small populations that vary every aggregate, the empty population included
AggregateTables == CustomerTables(MaxCustomers, ClaimTotals, TenureDays, Premiums)

\* populations of insured customers with three levels of claim amount
PopulationTables ==
    CustomerTables(MaxPopulation,
                   {<<2, 0, 0>>, <<2, 250, 0>>, <<2, 250, 1>>, <<2, 500, 0>>, <<2, 500, 1>>},
                   {F(1461)}, {1000})

LifetimeValues == {-1, 0, 1}
RiskScores == {F(0), F(40), Fin(81, 2), F(60), Fin(600001, 10000), F(100)}

\* tables as segment_customers receives them
ScoredTables ==
    {[i \in 1..Len(s) |-> [customer_id |-> i, lifetime_value |-> s[i][1], risk_score |-> s[i][2]]] :
        s \in SeqsUpTo(LifetimeValues \X RiskScores, MaxSegRows)}

-----------------------------------------------------------------------------
(* The scripts.                                                            *)

Start(at, t) ==
    /\ pc = at
    /\ df = t
    /\ caller_df = <<>>
    /\ given_df = <<>>
    /\ report = <<>>
    /\ scaled_features = <<>>
    /\ err = "none"

InitClaims == \E t \in OutlierTables \cup ScoreTables \cup HistoryTables : Start("merged", t)

InitCustomers == \E t \in AggregateTables \cup PopulationTables : Start("features", t)

InitSegment == \E t \in ScoredTables : Start("risk", t)

Init == InitClaims \/ InitCustomers

\* process_claims: df = detect_outliers_iqr(df).  The function works on df.copy().
DetectOutliersIqr ==
    /\ pc = "merged"
    /\ given_df' = df
    /\ caller_df' = df
    /\ df' = detect_outliers_iqr(df)
    /\ pc' = "flagged"
    /\ UNCHANGED <<report, scaled_features, err>>

\* process_claims: df = calculate_risk_scores(df).  The function works on df.copy().
CalculateRiskScores ==
    /\ pc = "flagged"
    /\ given_df' = df
    /\ caller_df' = df
    /\ df' = calculate_risk_scores(df)
    /\ pc' = "scored"
    /\ UNCHANGED <<report, scaled_features, err>>

\* process_claims: the selection, sort and drop that build output_df
BuildReport ==
    /\ pc = "scored"
    /\ report' = output_df(df)
    /\ pc' = "reported"
    /\ UNCHANGED <<df, caller_df, given_df, scaled_features, err>>

\* __main__: customer_level_data = calculate_ltv_and_loss_ratio(customer_level_data).
\* The function assigns the new columns on the table it was given.
CalculateLtvAndLossRatio ==
    /\ pc = "features"
    /\ given_df' = df
    /\ df' = calculate_ltv_and_loss_ratio(df)
    /\ caller_df' = df'
    /\ pc' = "ltv"
    /\ UNCHANGED <<report, scaled_features, err>>

\* __main__: customer_level_data = calculate_risk_score(customer_level_data).
\* claim_frequency_per_year is assigned on the given table before the scaler runs.
CalculateRiskScore ==
    /\ pc = "ltv"
    /\ given_df' = df
    /\ IF scaler_accepts(with_claim_frequency(df))
       THEN /\ df' = calculate_risk_score(df)
            /\ scaled_features' = fit_transform(with_claim_frequency(df))
            /\ pc' = "risk"
            /\ err' = err
       ELSE /\ df' = with_claim_frequency(df)
            /\ scaled_features' = scaled_features
            /\ pc' = "failed"
            /\ err' = "ValueError"
    /\ caller_df' = df'
    /\ UNCHANGED report

\* __main__: customer_level_data = segment_customers(customer_level_data).
SegmentCustomers ==
    /\ pc = "risk"
    /\ given_df' = df
    /\ df' = segment_customers(df)
    /\ caller_df' = df'
    /\ pc' = "segmented"
    /\ UNCHANGED <<report, scaled_features, err>>

NextClaims == DetectOutliersIqr \/ CalculateRiskScores \/ BuildReport

NextCustomers == CalculateLtvAndLossRatio \/ CalculateRiskScore \/ SegmentCustomers

Next == NextClaims \/ NextCustomers

SpecClaims == InitClaims /\ [][NextClaims]_vars

SpecCustomers == InitCustomers /\ [][NextCustomers]_vars

SpecSegment == InitSegment /\ [][SegmentCustomers]_vars

Spec == Init /\ [][Next]_vars

-----------------------------------------------------------------------------
(* Properties.                                                             *)

Flagged == pc \in {"flagged", "scored", "reported"}
Scored == pc \in {"scored", "reported"}
HasLossRatio == pc \in {"ltv", "risk", "segmented", "failed"}
HasFrequency == pc \in {"risk", "segmented", "failed"}
HasRiskScore == pc \in {"risk", "segmented"}

Rows == 1..Len(df)

Segments == {"Premium Partner", "Growth Prospect", "Risk Management", "Watch List"}

\* C2: assign_segment returns exactly one of the four segments, the first whose
\* condition holds in the order Premium Partner (LTV >= 0, risk <= 40), Growth
\* Prospect (LTV >= 0, 40 < risk <= 60), Risk Management (LTV < 0, risk > 60),
\* Watch List (otherwise); risk 40 with LTV 0 is Premium Partner, risk 60 is
\* Growth Prospect for LTV >= 0 and Watch List for LTV < 0, and a risk just
\* above 60 with LTV < 0 is Risk Management.
C2_SegmentDecisionList ==
    pc = "segmented" =>
        \A i \in Rows :
            LET l == df[i].lifetime_value
                r == df[i].risk_score
                s == df[i].segment
                b1 == l >= 0 /\ FLe(r, F(40))
                b2 == l >= 0 /\ FGt(r, F(40)) /\ FLe(r, F(60))
                b3 == l < 0 /\ FGt(r, F(60))
            IN  /\ s \in Segments
                /\ (s = "Premium Partner") <=> b1
                /\ (s = "Growth Prospect") <=> (~b1 /\ b2)
                /\ (s = "Risk Management") <=> (~b1 /\ ~b2 /\ b3)
                /\ (s = "Watch List") <=> (~b1 /\ ~b2 /\ ~b3)
                /\ (l = 0 /\ r = F(40)) => s = "Premium Partner"
                /\ (l >= 0 /\ r = F(60)) => s = "Growth Prospect"
                /\ (l < 0 /\ r = F(60)) => s = "Watch List"
                /\ (l < 0 /\ r = Fin(600001, 10000)) => s = "Risk Management"
                /\ (l >= 0 /\ FGt(r, F(60))) => s = "Watch List"

C2_Witness ==
    /\ pc = "segmented"
    /\ \E i \in Rows : df[i].lifetime_value = -1 /\ df[i].risk_score = F(60)
                       /\ df[i].segment = "Watch List"
    /\ \E i \in Rows : df[i].lifetime_value = -1 /\ df[i].risk_score = Fin(600001, 10000)
                       /\ df[i].segment = "Risk Management"

\* rows of t that share row i's policy type
Group(t, i) == {j \in 1..Len(t) : t[j].policy_type = t[i].policy_type}

\* the k-th smallest claim amount (k = 0, 1, ...) among the rows G of t
OrderStatistic(t, G, k) ==
    CHOOSE v \in {t[j].claim_amount : j \in G} :
        /\ Cardinality({j \in G : t[j].claim_amount < v}) <= k
        /\ k < Cardinality({j \in G : t[j].claim_amount <= v})

\* four times the p/4 quantile of the amounts of G, by linear interpolation
\* between the two order statistics around position (n - 1) * p / 4
Quartile4(t, G, p) ==
    LET h == (Cardinality(G) - 1) * p
        lo == h \div 4
        r == h % 4
    IN  IF r = 0 THEN 4 * OrderStatistic(t, G, lo)
        ELSE (4 - r) * OrderStatistic(t, G, lo) + r * OrderStatistic(t, G, lo + 1)

\* amount strictly outside [Q1 - 1.5 IQR, Q3 + 1.5 IQR], all terms times 8
OutsideFences(t, i) ==
    LET q1 == Quartile4(t, Group(t, i), 1)
        q3 == Quartile4(t, Group(t, i), 3)
        x == 8 * t[i].claim_amount
    IN  \/ x < 2 * q1 - 3 * (q3 - q1)
        \/ x > 2 * q3 + 3 * (q3 - q1)

\* C3: after detect_outliers_iqr a claim is flagged iff its amount lies strictly
\* outside the IQR fences of its own policy type; the only claim of a policy
\* type is never flagged.
C3_OutlierIffOutsideFences ==
    Flagged =>
        \A i \in Rows :
            /\ df[i].is_outlier <=> OutsideFences(df, i)
            /\ Cardinality(Group(df, i)) = 1 => ~df[i].is_outlier

C3_Witness ==
    /\ pc = "flagged"
    /\ \E i \in Rows : df[i].is_outlier
    /\ \E i \in Rows : Cardinality(Group(df, i)) = 1 /\ ~df[i].is_outlier

\* the rows of one policy type, renumbered, and a table whose rows of the other
\* policy types have other amounts
OnlyType(t, ptype) == SelectSeq(t, LAMBDA row : row.policy_type = ptype)

OthersChanged(t, ptype) ==
    [i \in 1..Len(t) |->
       IF t[i].policy_type = ptype THEN t[i]
       ELSE [t[i] EXCEPT !.claim_amount = 2 * t[i].claim_amount + 3]]

FlagsOf(t, ptype) == Column(OnlyType(t, ptype), "is_outlier")

\* C4: the flags detect_outliers_iqr gives the rows of a policy type are the
\* flags it gives them in the table without the rows of the other types, and
\* in the table whose other rows carry other amounts.
C4_FlagsDependOnOwnTypeOnly ==
    pc = "flagged" =>
        \A ptype \in PolicyTypes :
            /\ FlagsOf(df, ptype) = FlagsOf(detect_outliers_iqr(OnlyType(given_df, ptype)), ptype)
            /\ FlagsOf(df, ptype) = FlagsOf(detect_outliers_iqr(OthersChanged(given_df, ptype)), ptype)

C4_Witness ==
    /\ pc = "flagged"
    /\ \E i, j \in Rows : df[i].is_outlier /\ df[j].policy_type # df[i].policy_type

\* number of anomaly reasons that apply to a report row ("Normal" is none)
ApplicableReasons(r) == IF r = <<"Normal">> THEN 0 ELSE Len(r)

\* C5: the report is ordered by number of applicable anomaly reasons descending,
\* then risk_score descending, ties in input order; a "Normal" claim never
\* precedes a claim with a reason.
C5_ReportOrderedByReasons ==
    pc = "reported" =>
        \A i, j \in 1..Len(report) :
            i < j =>
                LET ni == ApplicableReasons(report[i].anomaly_reasons)
                    nj == ApplicableReasons(report[j].anomaly_reasons)
                IN  \/ ni > nj
                    \/ ni = nj /\ FGt(report[i].risk_score, report[j].risk_score)
                    \/ /\ ni = nj
                       /\ report[i].risk_score = report[j].risk_score
                       /\ report[i].claim_id < report[j].claim_id

\* the number of the four anomaly predicates that hold for a scored row
Holding(row) ==
    (IF row.score_history > 0 THEN 1 ELSE 0)
    + (IF FGt(row.score_coverage, F(40)) THEN 1 ELSE 0)
    + (IF row.score_timing > 0 THEN 1 ELSE 0)
    + (IF row.is_outlier THEN 1 ELSE 0)

CustomerClaims(t, i) == Cardinality({j \in 1..Len(t) : t[j].customer_id = t[i].customer_id})

\* C6: risk_score = score_coverage + score_timing + score_history + 5 k, k the
\* number of anomaly predicates that hold; with none the reason is "Normal"
\* alone; amount 1000 of coverage 2000 (here 1 of 2), 10 days after the start,
\* third claim of the customer, no outlier: 75.
C6_RiskScoreIsSumPlusBonus ==
    Scored =>
        \A i \in Rows :
            /\ df[i].risk_score =
                 FAdd(df[i].score_coverage,
                      F(df[i].score_timing + df[i].score_history + 5 * Holding(df[i])))
            /\ Holding(df[i]) = 0 <=> df[i].anomaly_reasons = <<"Normal">>
            /\ Holding(df[i]) > 0 => Len(df[i].anomaly_reasons) = Holding(df[i])
            /\ ( /\ 2 * df[i].claim_amount = df[i].coverage_amount
                 /\ df[i].coverage_amount > 0
                 /\ df[i].claim_date - df[i].start_date = 10
                 /\ CustomerClaims(df, i) = 3
                 /\ ~df[i].is_outlier ) => df[i].risk_score = F(75)

C6_Witness ==
    /\ pc = "scored"
    /\ \E i \in Rows :
         /\ df[i].claim_amount = 1 /\ df[i].coverage_amount = 2
         /\ df[i].days_since_start = 10
         /\ CustomerClaims(df, i) = 3
         /\ ~df[i].is_outlier
         /\ df[i].risk_score = F(75)

\* C7: score_history = min(20, max(0, (c - 1) * 5)) for a customer with c
\* claims: one value per customer, always one of 0, 5, 10, 15, 20.
C7_ScoreHistoryClamped ==
    Scored =>
        \A i \in Rows :
            LET c == CustomerClaims(df, i)
                raw == (c - 1) * 5
                floor0 == IF raw < 0 THEN 0 ELSE raw
            IN  /\ df[i].score_history = (IF floor0 > 20 THEN 20 ELSE floor0)
                /\ df[i].score_history \in {0, 5, 10, 15, 20}
                /\ \A j \in Rows :
                     df[j].customer_id = df[i].customer_id =>
                         df[j].score_history = df[i].score_history

C7_Witness ==
    /\ pc = "scored"
    /\ \E i \in Rows : CustomerClaims(df, i) >= 6 /\ df[i].score_history = 20

FeatureOf(row, j) ==
    IF j = 1 THEN row.loss_ratio
    ELSE IF j = 2 THEN F(row.fraud_claims)
    ELSE row.claim_frequency_per_year

\* feature j takes the same value for every customer
Constant(j) == \A a, b \in Rows : FeatureOf(df[a], j) = FeatureOf(df[b], j)

IsLeast(j, i) == \A a \in Rows : FLe(FeatureOf(df[i], j), FeatureOf(df[a], j))
IsGreatest(j, i) == \A a \in Rows : FGe(FeatureOf(df[i], j), FeatureOf(df[a], j))

\* C8: in a non-empty population every scaled feature is (x - min)/(max - min)
\* and lies in [0, 1]; a feature that is the same for all customers scales to 0
\* for every customer; every risk_score lies in [0, 100].
C8_ScaledInUnitInterval ==
    HasRiskScore =>
        /\ Len(scaled_features) = Len(df)
        /\ \A i \in Rows :
             /\ \A j \in 1..3 :
                  LET v == scaled_features[i][j]
                  IN  /\ IsFin(v) /\ FLe(F(0), v) /\ FLe(v, F(1))
                      /\ Constant(j) => v = F(0)
                      /\ ~Constant(j) =>
                           \E lo, hi \in Rows :
                               /\ IsLeast(j, lo) /\ IsGreatest(j, hi)
                               /\ FMul(v, FSub(FeatureOf(df[hi], j), FeatureOf(df[lo], j)))
                                    = FSub(FeatureOf(df[i], j), FeatureOf(df[lo], j))
             /\ IsFin(df[i].risk_score)
             /\ FLe(F(0), df[i].risk_score) /\ FLe(df[i].risk_score, F(100))

C8_Witness ==
    /\ pc = "risk"
    /\ Len(df) >= 2
    /\ Constant(3)
    /\ \E i \in Rows : scaled_features[i][3] = F(0)
    /\ \E i \in Rows : scaled_features[i][1] = Fin(1, 2)

\* C9: loss_ratio and claim_frequency_per_year are always finite and computing
\* them raises nothing: loss_ratio is 0 when annual_premium_sum is 0 and
\* total_claim_amount / annual_premium_sum otherwise; the frequency is 0 when
\* policy_tenure_years is 0 or missing and total_claims / policy_tenure_years
\* otherwise.
C9_SafeDivision ==
    /\ pc = "ltv" => err = "none"
    /\ err # "none" => (pc = "failed" /\ Len(df) = 0)
    /\ HasLossRatio =>
         \A i \in Rows :
             /\ IsFin(df[i].loss_ratio)
             /\ df[i].annual_premium_sum = 0 => df[i].loss_ratio = F(0)
             /\ df[i].annual_premium_sum # 0 =>
                  df[i].loss_ratio.n * df[i].annual_premium_sum
                      = df[i].total_claim_amount * df[i].loss_ratio.d
    /\ HasFrequency =>
         \A i \in Rows :
             LET f == df[i].claim_frequency_per_year
                 y == df[i].policy_tenure_years
             IN  /\ IsFin(f)
                 /\ (IsNaN(y) \/ y = F(0)) => f = F(0)
                 /\ (IsFin(y) /\ y # F(0)) => FMul(f, y) = F(df[i].total_claims)

C9_Witness ==
    /\ pc = "risk"
    /\ \E i \in Rows : /\ df[i].annual_premium_sum = 0 /\ df[i].total_claim_amount = 500
                       /\ df[i].loss_ratio = F(0)
                       /\ df[i].policy_tenure_years = F(0) /\ df[i].total_claims = 2
                       /\ df[i].claim_frequency_per_year = F(0)
    /\ \E i \in Rows : /\ IsNaN(df[i].policy_tenure_years)
                       /\ df[i].annual_premium_sum = 0 /\ df[i].total_claim_amount = 0

\* C10: every scoring stage leaves the table it was given unchanged: after the
\* stage the caller's table has the columns and values it had at the call.
C10_StagesLeaveInputUnchanged ==
    pc \notin {"merged", "features"} => caller_df = given_df

====
